---- MODULE Spec2Model ----
(***************************************************************************)
(* Model of Common/nvrtc_helper.h: compileFileToCUBIN and loadCUBIN.       *)
(*                                                                         *)
(* A run is one execution of a sample program (the caller) that calls the  *)
(* two functions.  Every external call (file system, NVRTC, CUDA driver)   *)
(* is one step whose answer is chosen by the environment.  exit(1) moves   *)
(* the run to "exited"; an abnormal termination (uncaught exception,       *)
(* invalid-parameter handler, crash on undefined behaviour) moves it to    *)
(* "aborted".                                                              *)
(*                                                                         *)
(* Strings are sequences of one-character strings, so that snprintf        *)
(* truncation, std::string::find and erase are computed, not assumed.      *)
(*                                                                         *)
(* Spec runs one program (run 1).  SpecPair runs two programs on the same  *)
(* machine, call by call, with the same inputs except the argument list;   *)
(* run 2 receives from the environment the answers run 1 received for the  *)
(* same external calls.                                                    *)
(*                                                                         *)
(* Not modelled: allocation failure (malloc returning NULL, bad_alloc) and *)
(* stream errors after a successful open.                                  *)
(***************************************************************************)
EXTENDS Integers, Sequences, FiniteSets, TLC

\* ------------------------------------------------------------------ bounds
MaxCalls == 3
MaxMajor == 10
MaxMinor == 1
MaxLogLen == 2

\* --------------------------------------------------------------- constants
NULL == 0
NoDeviceArg == -1
ArchOptionSlack == 10
IncludeOptionSlack == 1
LogPrintThreshold == 2

Runs == {1, 2}
\* the CUDA devices of the machine, by ordinal
Devices == {0, 1}
\* the values of argv[0] tried
ExePaths == {1, 2}
\* the compute capabilities a device may report
Majors == (MaxMajor - 1) .. MaxMajor
Minors == 0 .. MaxMinor
\* the sizes nvrtcGetCUBINSize may report
CodeSizes == {1}

\* ----------------------------------------------------------------- strings
DigitChars == <<"0", "1", "2", "3", "4", "5", "6", "7", "8", "9">>

RECURSIVE DecDigits(_)
\* printf's %d of a non-negative int
DecDigits(n) ==
    IF n < 10 THEN <<DigitChars[n + 1]>>
    ELSE DecDigits(n \div 10) \o <<DigitChars[(n % 10) + 1]>>

\* "--gpu-architecture=sm_"
GpuArchPrefix ==
    <<"-", "-", "g", "p", "u", "-", "a", "r", "c", "h", "i", "t", "e", "c",
      "t", "u", "r", "e", "=", "s", "m", "_">>

\* "--include-path="
IncludePathPrefix ==
    <<"-", "-", "i", "n", "c", "l", "u", "d", "e", "-", "p", "a", "t", "h", "=">>

\* "cooperative_groups.h"
HeaderNames ==
    <<"c", "o", "o", "p", "e", "r", "a", "t", "i", "v", "e", "_", "g", "r",
      "o", "u", "p", "s", ".", "h">>

\* What sdkFindFilePath can hand back: NULL (index 0 below), an empty
\* string, or the full path of the header in some directory.
HeaderPaths ==
    << <<>>,
       <<".", "/">> \o HeaderNames,
       <<"/", "i", "n", "c", "/", "c", "g", "/">> \o HeaderNames >>

Min(a, b) == IF a < b THEN a ELSE b

\* snprintf(buf, n, "%s...", s): at most n - 1 characters are stored.
Snprintf(n, s) == SubSeq(s, 1, Min(Len(s), n - 1))

\* sprintf_s(buf, n, "%s...", s): the whole string, or the invalid
\* parameter handler when it does not fit with its terminator.
SprintfSFits(n, s) == Len(s) < n

\* std::string::find: the first position of sub in s, 0 for npos.
Find(s, sub) ==
    LET hits == {i \in 1 .. Len(s) : /\ i + Len(sub) - 1 <= Len(s)
                                     /\ SubSeq(s, i, i + Len(sub) - 1) = sub}
    IN  IF hits = {} THEN 0 ELSE CHOOSE i \in hits : \A j \in hits : i <= j

\* std::string::erase(found) for a valid position
Erase(s, found) == SubSeq(s, 1, found - 1)

\* ------------------------------------------------------------------- state
VARIABLES
    paired,   \* TRUE when two programs are run side by side (SpecPair)
    win32,    \* the build: TRUE when WIN32/_WIN32/WIN64/_WIN64 is defined
    pc,       \* per run: "idle" (in the caller), a step of a function,
              \*          "exited" (exit(1)) or "aborted" (abnormal end)
    calls,    \* per run: calls of the two functions started so far
    fn,       \* per run: the function called last ("none" before any call)
    args,     \* per run: the parameters of the current call
    loc,      \* per run: the locals of the current call
    out,      \* per run: the caller's cubinResult, cubinResultSize, module
    entry,    \* per run: `out` as it was when the current call started
    heap,     \* per run: every allocation made so far, with its releases
    trace,    \* per run: the external calls of the current call, in order
    diag,     \* per run: what the current call printed, in order
    passed    \* per run: the options handed to nvrtcCompileProgram

vars == <<paired, win32, pc, calls, fn, args, loc, out, entry, heap, trace,
          diag, passed>>

Argvs == [exe : ExePaths, dev : {NoDeviceArg} \cup Devices]

NoArgs == [filename |-> NULL, argv |-> [exe |-> 1, dev |-> NoDeviceArg],
           requiresCGheaders |-> 0, cubin |-> NULL]

NoLocals == [cuDevice |-> 0, major |-> 0, minor |-> 0, memBlock |-> NULL,
             compileParams |-> <<>>, prog |-> NULL, res |-> TRUE,
             logSize |-> 0, log |-> NULL, codeSize |-> 0, code |-> NULL,
             module |-> NULL]

NoOut == [cubinResult |-> NULL, cubinResultSize |-> 0, module |-> NULL]

InitCommon ==
    /\ win32 \in BOOLEAN
    /\ pc = [p \in Runs |-> "idle"]
    /\ calls = [p \in Runs |-> 0]
    /\ fn = [p \in Runs |-> "none"]
    /\ args = [p \in Runs |-> NoArgs]
    /\ loc = [p \in Runs |-> NoLocals]
    /\ out = [p \in Runs |-> NoOut]
    /\ entry = [p \in Runs |-> NoOut]
    /\ heap = [p \in Runs |-> <<>>]
    /\ trace = [p \in Runs |-> <<>>]
    /\ diag = [p \in Runs |-> <<>>]
    /\ passed = [p \in Runs |-> <<>>]

Init == paired = FALSE /\ InitCommon

InitPair == paired = TRUE /\ InitCommon

\* ----------------------------------------------------------- environment
Ended(p) == pc[p] \in {"exited", "aborted"}

OkFail == {[ok |-> TRUE, val |-> 0], [ok |-> FALSE, val |-> 0]}

OkWith(S) == {[ok |-> TRUE, val |-> v] : v \in S}

FailOnly == {[ok |-> FALSE, val |-> 0]}

\* The answers the environment may give run p to its next external call.
\* Run 2 of a pair is on the same machine as run 1: it gets the answer
\* run 1 got when run 1 made the same call at the same point.
Answers(p, name, arg, all) ==
    LET k == Len(trace[p]) + 1
    IN  IF /\ paired
           /\ p = 2
           /\ k <= Len(trace[1])
           /\ trace[1][k].name = name
           /\ trace[1][k].arg = arg
        THEN {[ok |-> trace[1][k].ok, val |-> trace[1][k].val]}
        ELSE all

Ev(name, arg, a) == [name |-> name, arg |-> arg, ok |-> a.ok, val |-> a.val]

Msg(m, a, b) == [msg |-> m, a |-> a, b |-> b]

\* ------------------------------------------------------------------ heap
\* A block: what it holds, the allocator it came from, and in order what
\* was done to it since: a deallocator's name for each release, "loaded" /
\* "not loaded" for each cuModuleLoadData on it.
Alloc(h, what, by) == Append(h, [what |-> what, by |-> by, ops |-> <<>>])

Use(h, id, op) == [h EXCEPT ![id].ops = Append(@, op)]

Release(h, id, with) == Use(h, id, with)

Deallocators == {"free", "delete[]", "nvrtcDestroyProgram"}

Releases(b) == {i \in DOMAIN b.ops : b.ops[i] \in Deallocators}

Released(h, id) == Releases(h[id]) # {}

\* The deallocator that matches an allocator.
Matching(by) ==
    CASE by = "malloc" -> "free"
      [] by = "new[]" -> "delete[]"
      [] by = "nvrtcCreateProgram" -> "nvrtcDestroyProgram"

\* free(ptr) is defined only for a live malloc'ed block.
FreeIsDefined(h, id) == h[id].by = "malloc" /\ ~Released(h, id)

\* ------------------------------------------------------------ error checks
NVRTC_SAFE_CALL_NoExit(p, Name, ok, next) ==
    /\ pc' = [pc EXCEPT ![p] = next]
    /\ diag' = diag

\* NVRTC_SAFE_CALL(Name, x): on a result other than NVRTC_SUCCESS print
\* "error: <Name> failed with error ..." and exit(1).
NVRTC_SAFE_CALL(p, Name, ok, next) ==
    IF ~ok
    THEN /\ pc' = [pc EXCEPT ![p] = "exited"]
         /\ diag' = [diag EXCEPT ![p] = Append(@, Msg(Name, 0, 0))]
    ELSE /\ pc' = [pc EXCEPT ![p] = next]
         /\ diag' = diag

\* checkCudaErrors(err) of helper_cuda_drvapi.h: on a result other than
\* CUDA_SUCCESS print the error and exit.
checkCudaErrors(p, Name, ok, next) ==
    IF ~ok
    THEN /\ pc' = [pc EXCEPT ![p] = "exited"]
         /\ diag' = [diag EXCEPT ![p] = Append(@, Msg(Name, 0, 0))]
    ELSE /\ pc' = [pc EXCEPT ![p] = next]
         /\ diag' = diag

\* findCudaDeviceDRV(argc, argv) of helper_cuda_drvapi.h: the device the
\* argument list names, else the best device available (device 0 here).
findCudaDeviceDRV(argv) == IF argv.dev = NoDeviceArg THEN 0 ELSE argv.dev

\* ------------------------------------------------------------ control flow
After(steps, s) == steps[(CHOOSE i \in DOMAIN steps : steps[i] = s) + 1]

CompileSteps_CheckBeforeLog ==
    <<"c_filename", "c_open", "c_findDevice", "c_major", "c_minor",
      "c_archOption", "c_cgHeaders", "c_createProgram", "c_compile",
      "c_checkRes", "c_logSize", "c_getLog", "c_dumpLog",
      "c_cubinSize", "c_getCubin", "c_writeOut", "c_freeOptions", "idle">>

\* The statements of compileFileToCUBIN in program order.
CompileSteps ==
    <<"c_filename", "c_open", "c_findDevice", "c_major", "c_minor",
      "c_archOption", "c_cgHeaders", "c_createProgram", "c_compile",
      "c_logSize", "c_getLog", "c_dumpLog", "c_checkRes",
      "c_cubinSize", "c_getCubin", "c_writeOut", "c_freeOptions", "idle">>

LoadSteps_FreeBeforeLoad ==
    <<"l_findDevice", "l_major", "l_minor", "l_name", "l_init",
      "l_ctxCreate", "l_free", "l_moduleLoad", "l_return", "idle">>

LoadSteps_LoadBeforeCtx ==
    <<"l_findDevice", "l_major", "l_minor", "l_name", "l_init",
      "l_moduleLoad", "l_ctxCreate", "l_free", "l_return", "idle">>

\* The statements of loadCUBIN in program order.
LoadSteps ==
    <<"l_findDevice", "l_major", "l_minor", "l_name", "l_init",
      "l_ctxCreate", "l_moduleLoad", "l_free", "l_return", "idle">>

NextC(s) == After(CompileSteps, s)

NextL(s) == After(LoadSteps, s)

Goto(p, s) == pc' = [pc EXCEPT ![p] = s]

Exit(p, m) ==
    /\ pc' = [pc EXCEPT ![p] = "exited"]
    /\ diag' = [diag EXCEPT ![p] = Append(@, m)]

Abort(p) == pc' = [pc EXCEPT ![p] = "aborted"]

Record(p, e) == trace' = [trace EXCEPT ![p] = Append(@, e)]

\* ------------------------------------------------------------- the caller
\* Run 1 is the program; run 2 exists only in a pair and repeats each call
\* of run 1 once run 1 has finished it.
\* Both programs of a pair are the samples' client: one compile, one load.
PairProgram == <<"compile", "load">>

CanStart(p, f) ==
    /\ pc[p] = "idle"
    /\ calls[p] < MaxCalls
    /\ paired => /\ calls[p] < Len(PairProgram)
                 /\ PairProgram[calls[p] + 1] = f
    /\ IF p = 1
       THEN paired => (calls[2] = calls[1] /\ pc[2] = "idle")
       ELSE paired /\ calls[2] < calls[1] /\ (pc[1] = "idle" \/ Ended(1))

\* Run 2 makes the call run 1 made, with any argument list that selects
\* the device run 1's argument list selects.
SameCall(p, f, filename, argv, cg) ==
    p = 2 => /\ fn[1] = f
             /\ args[1].filename = filename
             /\ args[1].requiresCGheaders = cg
             /\ findCudaDeviceDRV(argv) = findCudaDeviceDRV(args[1].argv)

\* The runs whose record of the previous call is dropped when run p starts
\* a call: a call of run 1 opens a new round of the pair.
Round(p) == IF p = 1 THEN Runs ELSE {p}

Start(p, f, a, first) ==
    /\ pc' = [pc EXCEPT ![p] = first]
    /\ calls' = [calls EXCEPT ![p] = @ + 1]
    /\ fn' = [fn EXCEPT ![p] = f]
    /\ args' = [q \in Runs |-> IF q = p THEN a
                             ELSE IF q \in Round(p) THEN NoArgs ELSE args[q]]
    /\ loc' = [q \in Runs |-> IF q \in Round(p) THEN NoLocals ELSE loc[q]]
    /\ entry' = [entry EXCEPT ![p] = out[p]]
    /\ trace' = [q \in Runs |-> IF q \in Round(p) THEN <<>> ELSE trace[q]]
    /\ diag' = [q \in Runs |-> IF q \in Round(p) THEN <<>> ELSE diag[q]]
    /\ passed' = [q \in Runs |-> IF q \in Round(p) THEN <<>> ELSE passed[q]]
    /\ UNCHANGED <<paired, win32, out, heap>>

\* compileFileToCUBIN(filename, argc, argv, &cubinResult, &cubinResultSize,
\*                    requiresCGheaders)
CallCompile(p) ==
    /\ CanStart(p, "compile")
    /\ \E filename \in {NULL, 1}, argv \in Argvs, cg \in {0, 1} :
          /\ SameCall(p, "compile", filename, argv, cg)
          /\ Start(p, "compile",
                   [filename |-> filename, argv |-> argv,
                    requiresCGheaders |-> cg, cubin |-> NULL],
                   CompileSteps[1])

\* loadCUBIN(cubinResult, argc, argv) on the pointer the caller holds
CallLoad(p) ==
    /\ CanStart(p, "load")
    /\ out[p].cubinResult # NULL
    /\ \E argv \in Argvs :
          /\ SameCall(p, "load", NULL, argv, 0)
          /\ Start(p, "load",
                   [filename |-> NULL, argv |-> argv,
                    requiresCGheaders |-> 0, cubin |-> out[p].cubinResult],
                   LoadSteps[1])

\* ------------------------------------------------------ compileFileToCUBIN
\* if (!filename) { cerr << ...; exit(1); }
C_Filename(p) ==
    /\ pc[p] = "c_filename"
    /\ IF args[p].filename = NULL
       THEN Exit(p, Msg("filename is empty for compileFileToCUBIN()", 0, 0))
       ELSE Goto(p, NextC("c_filename")) /\ diag' = diag
    /\ UNCHANGED <<paired, win32, calls, fn, args, loc, out, entry, heap,
                   trace, passed>>

\* std::ifstream inputFile(filename, ...); is_open() check; read the file
\* into memBlock = new char[inputSize + 1]
C_Open(p) ==
    /\ pc[p] = "c_open"
    /\ \E a \in Answers(p, "ifstream::open", 0, OkFail) :
          /\ Record(p, Ev("ifstream::open", 0, a))
          /\ IF ~a.ok
             THEN /\ Exit(p, Msg("unable to open for reading",
                                 args[p].filename, 0))
                  /\ UNCHANGED <<heap, loc>>
             ELSE /\ Goto(p, NextC("c_open"))
                  /\ diag' = diag
                  /\ heap' = [heap EXCEPT ![p] = Alloc(@, "memBlock", "new[]")]
                  /\ loc' = [loc EXCEPT ![p].memBlock = Len(heap[p]) + 1]
    /\ UNCHANGED <<paired, win32, calls, fn, args, out, entry, passed>>

\* CUdevice cuDevice = findCudaDeviceDRV(argc, (const char **)argv);
\* the helper ends the process itself when it finds no usable device.
FindDevice(p, next) ==
    LET d == findCudaDeviceDRV(args[p].argv)
    IN  \E a \in Answers(p, "findCudaDeviceDRV", d, OkWith({d}) \cup FailOnly) :
          /\ Record(p, Ev("findCudaDeviceDRV", d, a))
          /\ IF ~a.ok
             THEN Exit(p, Msg("findCudaDeviceDRV", 0, 0))
             ELSE Goto(p, next) /\ diag' = diag
          /\ loc' = [loc EXCEPT ![p].cuDevice = IF a.ok THEN a.val ELSE @]

C_FindDevice(p) ==
    /\ pc[p] = "c_findDevice"
    /\ FindDevice(p, NextC("c_findDevice"))
    /\ UNCHANGED <<paired, win32, calls, fn, args, out, entry, heap, passed>>

GetAttribute_OfArgument(p, name, field, range, next) ==
    \E a \in Answers(p, name, args[p].argv.dev, OkWith(range) \cup FailOnly) :
       /\ Record(p, Ev(name, args[p].argv.dev, a))
       /\ checkCudaErrors(p, name, a.ok, next)
       /\ loc' = [loc EXCEPT ![p][field] = IF a.ok THEN a.val ELSE @]

\* checkCudaErrors(cuDeviceGetAttribute(&major or &minor, ..., cuDevice))
GetAttribute(p, name, field, range, next) ==
    \E a \in Answers(p, name, loc[p].cuDevice, OkWith(range) \cup FailOnly) :
       /\ Record(p, Ev(name, loc[p].cuDevice, a))
       /\ checkCudaErrors(p, name, a.ok, next)
       /\ loc' = [loc EXCEPT ![p][field] = IF a.ok THEN a.val ELSE @]

C_Major(p) ==
    /\ pc[p] = "c_major"
    /\ GetAttribute(p, "cuDeviceGetAttribute(MAJOR)", "major", Majors,
                    NextC("c_major"))
    /\ UNCHANGED <<paired, win32, calls, fn, args, out, entry, heap, passed>>

C_Minor(p) ==
    /\ pc[p] = "c_minor"
    /\ GetAttribute(p, "cuDeviceGetAttribute(MINOR)", "minor", Minors,
                    NextC("c_minor"))
    /\ UNCHANGED <<paired, win32, calls, fn, args, out, entry, heap, passed>>

ArchOptionBufSize_Short == Len(GpuArchPrefix) + 1

\* malloc(sizeof(char) * (compileOptions.length() + 10))
ArchOptionBufSize == Len(GpuArchPrefix) + ArchOptionSlack

\* The second argument of the non-Windows snprintf for the include path:
\* compileOptions.size(), while malloc and sprintf_s use length() + 1.
IncludeOptionLimit(s) == Len(s)

\* Store formatted string s in a fresh malloc'ed buffer of bufSize bytes as
\* option number numCompileOptions; limit is the size given to snprintf.
StoreOption(p, s, bufSize, limit, next) ==
    LET id == Len(heap[p]) + 1
    IN  /\ heap' = [heap EXCEPT ![p] = Alloc(@, "option", "malloc")]
        /\ IF win32 /\ ~SprintfSFits(bufSize, s)
           THEN Abort(p) /\ loc' = loc
           ELSE /\ Goto(p, next)
                /\ loc' = [loc EXCEPT ![p].compileParams =
                             Append(@, [ptr |-> id,
                                        str |-> IF win32 THEN s
                                                ELSE Snprintf(limit, s)])]

\* compileOptions = "--gpu-architecture=sm_"; "%s%d%d" of it, major, minor
C_ArchOption(p) ==
    /\ pc[p] = "c_archOption"
    /\ StoreOption(p,
                   GpuArchPrefix \o DecDigits(loc[p].major)
                                 \o DecDigits(loc[p].minor),
                   ArchOptionBufSize, ArchOptionBufSize,
                   NextC("c_archOption"))
    /\ UNCHANGED <<paired, win32, calls, fn, args, out, entry, trace, diag,
                   passed>>

\* sdkFindFilePath(HeaderNames, argv[0]): NULL (0) or HeaderPaths[val];
\* what is found depends on the executable path.
HeaderAnswers ==
    {[ok |-> FALSE, val |-> 0]} \cup
    {[ok |-> Len(HeaderPaths[i]) > 0, val |-> i] : i \in DOMAIN HeaderPaths}

\* if (requiresCGheaders) { ... }
C_CGHeaders(p) ==
    /\ pc[p] = "c_cgHeaders"
    /\ IF args[p].requiresCGheaders = 0
       THEN /\ Goto(p, NextC("c_cgHeaders"))
            /\ UNCHANGED <<trace, diag, heap, loc>>
       ELSE \E a \in Answers(p, "sdkFindFilePath", args[p].argv.exe,
                             HeaderAnswers) :
              /\ Record(p, Ev("sdkFindFilePath", args[p].argv.exe, a))
              /\ IF a.val = NULL
                 THEN /\ Exit(p, Msg("header file not found", 0, 0))
                      /\ UNCHANGED <<heap, loc>>
                 ELSE LET path == HeaderPaths[a.val]
                          found == Find(path, HeaderNames)
                      IN  IF path = <<>>
                          THEN /\ Exit(p, Msg("CooperativeGroups headers not found",
                                              args[p].argv.exe, 0))
                               /\ UNCHANGED <<heap, loc>>
                          ELSE IF found = 0
                          THEN /\ Abort(p)
                               /\ UNCHANGED <<diag, heap, loc>>
                          ELSE LET s == IncludePathPrefix \o Erase(path, found)
                               IN  /\ StoreOption(p, s,
                                          Len(s) + IncludeOptionSlack,
                                          IncludeOptionLimit(s),
                                          NextC("c_cgHeaders"))
                                   /\ diag' = diag
    /\ UNCHANGED <<paired, win32, calls, fn, args, out, entry, passed>>

\* NVRTC_SAFE_CALL("nvrtcCreateProgram",
\*                 nvrtcCreateProgram(&prog, memBlock, filename, 0, NULL, NULL))
C_CreateProgram(p) ==
    /\ pc[p] = "c_createProgram"
    /\ \E a \in Answers(p, "nvrtcCreateProgram", 0, OkFail) :
          /\ Record(p, Ev("nvrtcCreateProgram", 0, a))
          /\ NVRTC_SAFE_CALL(p, "nvrtcCreateProgram", a.ok,
                             NextC("c_createProgram"))
          /\ IF a.ok
             THEN /\ heap' = [heap EXCEPT
                                ![p] = Alloc(@, "prog", "nvrtcCreateProgram")]
                  /\ loc' = [loc EXCEPT ![p].prog = Len(heap[p]) + 1]
             ELSE UNCHANGED <<heap, loc>>
    /\ UNCHANGED <<paired, win32, calls, fn, args, out, entry, passed>>

\* nvrtcResult res = nvrtcCompileProgram(prog, numCompileOptions,
\*                                       compileParams);   (not checked here)
C_Compile(p) ==
    /\ pc[p] = "c_compile"
    /\ \E a \in Answers(p, "nvrtcCompileProgram", 0, OkFail) :
          /\ Record(p, Ev("nvrtcCompileProgram", 0, a))
          /\ loc' = [loc EXCEPT ![p].res = a.ok]
    /\ passed' = [passed EXCEPT
                    ![p] = [i \in DOMAIN loc[p].compileParams |->
                              loc[p].compileParams[i].str]]
    /\ Goto(p, NextC("c_compile"))
    /\ UNCHANGED <<paired, win32, calls, fn, args, out, entry, heap, diag>>

\* NVRTC_SAFE_CALL("nvrtcGetProgramLogSize",
\*                 nvrtcGetProgramLogSize(prog, &logSize));
\* logSize counts the log's characters and its trailing NUL.
C_LogSize(p) ==
    /\ pc[p] = "c_logSize"
    /\ \E a \in Answers(p, "nvrtcGetProgramLogSize", 0,
                        OkWith(1 .. (MaxLogLen + 1)) \cup FailOnly) :
          /\ Record(p, Ev("nvrtcGetProgramLogSize", 0, a))
          /\ NVRTC_SAFE_CALL(p, "nvrtcGetProgramLogSize", a.ok,
                             NextC("c_logSize"))
          /\ loc' = [loc EXCEPT ![p].logSize = IF a.ok THEN a.val ELSE @]
    /\ UNCHANGED <<paired, win32, calls, fn, args, out, entry, heap, passed>>

\* char *log = malloc(sizeof(char) * logSize + 1);
\* NVRTC_SAFE_CALL("nvrtcGetProgramLog", nvrtcGetProgramLog(prog, log));
\* log[logSize] = '\x0';
C_GetLog(p) ==
    /\ pc[p] = "c_getLog"
    /\ heap' = [heap EXCEPT ![p] = Alloc(@, "log", "malloc")]
    /\ loc' = [loc EXCEPT ![p].log = Len(heap[p]) + 1]
    /\ \E a \in Answers(p, "nvrtcGetProgramLog", 0, OkFail) :
          /\ Record(p, Ev("nvrtcGetProgramLog", 0, a))
          /\ NVRTC_SAFE_CALL(p, "nvrtcGetProgramLog", a.ok, NextC("c_getLog"))
    /\ UNCHANGED <<paired, win32, calls, fn, args, out, entry, passed>>

\* strlen(log): the characters nvrtcGetProgramLog stored before the NUL
Strlen_log(p) == loc[p].logSize - 1

\* if (strlen(log) >= 2)
DumpsLog(n) == n >= LogPrintThreshold

\* if (strlen(log) >= 2) { cerr << log ... }   free(log);
C_DumpLog(p) ==
    /\ pc[p] = "c_dumpLog"
    /\ diag' = [diag EXCEPT
                  ![p] = IF DumpsLog(Strlen_log(p))
                         THEN Append(@, Msg("compilation log", Strlen_log(p), 0))
                         ELSE @]
    /\ heap' = [heap EXCEPT ![p] = Release(@, loc[p].log, "free")]
    /\ Goto(p, NextC("c_dumpLog"))
    /\ UNCHANGED <<paired, win32, calls, fn, args, loc, out, entry, trace,
                   passed>>

C_CheckRes_Unchecked(p) ==
    /\ pc[p] = "c_checkRes"
    /\ Goto(p, "c_cubinSize")
    /\ UNCHANGED <<paired, win32, calls, fn, args, loc, out, entry, heap,
                   trace, diag, passed>>

\* NVRTC_SAFE_CALL("nvrtcCompileProgram", res);
C_CheckRes(p) ==
    /\ pc[p] = "c_checkRes"
    /\ NVRTC_SAFE_CALL(p, "nvrtcCompileProgram", loc[p].res,
                       NextC("c_checkRes"))
    /\ UNCHANGED <<paired, win32, calls, fn, args, loc, out, entry, heap,
                   trace, passed>>

\* NVRTC_SAFE_CALL("nvrtcGetCUBINSize", nvrtcGetCUBINSize(prog, &codeSize));
C_CubinSize(p) ==
    /\ pc[p] = "c_cubinSize"
    /\ \E a \in Answers(p, "nvrtcGetCUBINSize", 0,
                        OkWith(CodeSizes) \cup FailOnly) :
          /\ Record(p, Ev("nvrtcGetCUBINSize", 0, a))
          /\ NVRTC_SAFE_CALL(p, "nvrtcGetCUBINSize", a.ok,
                             NextC("c_cubinSize"))
          /\ loc' = [loc EXCEPT ![p].codeSize = IF a.ok THEN a.val ELSE @]
    /\ UNCHANGED <<paired, win32, calls, fn, args, out, entry, heap, passed>>

\* char *code = new char[codeSize];
\* NVRTC_SAFE_CALL("nvrtcGetCUBIN", nvrtcGetCUBIN(prog, code));
C_GetCubin(p) ==
    /\ pc[p] = "c_getCubin"
    /\ heap' = [heap EXCEPT ![p] = Alloc(@, "code", "new[]")]
    /\ loc' = [loc EXCEPT ![p].code = Len(heap[p]) + 1]
    /\ \E a \in Answers(p, "nvrtcGetCUBIN", 0, OkFail) :
          /\ Record(p, Ev("nvrtcGetCUBIN", 0, a))
          /\ NVRTC_SAFE_CALL(p, "nvrtcGetCUBIN", a.ok, NextC("c_getCubin"))
    /\ UNCHANGED <<paired, win32, calls, fn, args, out, entry, passed>>

\* *cubinResult = code;  *cubinResultSize = codeSize;
C_WriteOut(p) ==
    /\ pc[p] = "c_writeOut"
    /\ out' = [out EXCEPT ![p].cubinResult = loc[p].code,
                          ![p].cubinResultSize = loc[p].codeSize]
    /\ Goto(p, NextC("c_writeOut"))
    /\ UNCHANGED <<paired, win32, calls, fn, args, loc, entry, heap, trace,
                   diag, passed>>

RECURSIVE FreeAll(_, _)
\* for (i = 0; i < numCompileOptions; i++) free(compileParams[i]);
FreeAll(h, params) ==
    IF params = <<>> THEN h
    ELSE FreeAll(Release(h, Head(params).ptr, "free"), Tail(params))

\* the closing loop of compileFileToCUBIN, then the return to the caller
C_FreeOptions(p) ==
    /\ pc[p] = "c_freeOptions"
    /\ heap' = [heap EXCEPT ![p] = FreeAll(@, loc[p].compileParams)]
    /\ Goto(p, NextC("c_freeOptions"))
    /\ UNCHANGED <<paired, win32, calls, fn, args, loc, out, entry, trace,
                   diag, passed>>

\* --------------------------------------------------------------- loadCUBIN
L_FindDevice(p) ==
    /\ pc[p] = "l_findDevice"
    /\ FindDevice(p, NextL("l_findDevice"))
    /\ UNCHANGED <<paired, win32, calls, fn, args, out, entry, heap, passed>>

L_Major(p) ==
    /\ pc[p] = "l_major"
    /\ GetAttribute(p, "cuDeviceGetAttribute(MAJOR)", "major", Majors,
                    NextL("l_major"))
    /\ UNCHANGED <<paired, win32, calls, fn, args, out, entry, heap, passed>>

L_Minor(p) ==
    /\ pc[p] = "l_minor"
    /\ GetAttribute(p, "cuDeviceGetAttribute(MINOR)", "minor", Minors,
                    NextL("l_minor"))
    /\ UNCHANGED <<paired, win32, calls, fn, args, out, entry, heap, passed>>

\* checkCudaErrors(cuDeviceGetName(deviceName, 256, cuDevice));
\* printf("> GPU Device has SM %d.%d compute capability\n", major, minor);
L_Name(p) ==
    /\ pc[p] = "l_name"
    /\ \E a \in Answers(p, "cuDeviceGetName", loc[p].cuDevice, OkFail) :
          /\ Record(p, Ev("cuDeviceGetName", loc[p].cuDevice, a))
          /\ IF a.ok
             THEN /\ Goto(p, NextL("l_name"))
                  /\ diag' = [diag EXCEPT
                                ![p] = Append(@, Msg("GPU Device has SM",
                                                     loc[p].major, loc[p].minor))]
             ELSE checkCudaErrors(p, "cuDeviceGetName", a.ok, NextL("l_name"))
    /\ UNCHANGED <<paired, win32, calls, fn, args, loc, out, entry, heap,
                   passed>>

\* checkCudaErrors(cuInit(0));
L_Init(p) ==
    /\ pc[p] = "l_init"
    /\ \E a \in Answers(p, "cuInit", 0, OkFail) :
          /\ Record(p, Ev("cuInit", 0, a))
          /\ checkCudaErrors(p, "cuInit", a.ok, NextL("l_init"))
    /\ UNCHANGED <<paired, win32, calls, fn, args, loc, out, entry, heap,
                   passed>>

\* checkCudaErrors(cuCtxCreate(&context, 0, cuDevice));
L_CtxCreate(p) ==
    /\ pc[p] = "l_ctxCreate"
    /\ \E a \in Answers(p, "cuCtxCreate", loc[p].cuDevice, OkFail) :
          /\ Record(p, Ev("cuCtxCreate", loc[p].cuDevice, a))
          /\ checkCudaErrors(p, "cuCtxCreate", a.ok, NextL("l_ctxCreate"))
    /\ UNCHANGED <<paired, win32, calls, fn, args, loc, out, entry, heap,
                   passed>>

\* An abnormal end of the process inside a call with undefined behaviour.
Crashed == [ok |-> FALSE, val |-> -1]

\* checkCudaErrors(cuModuleLoadData(&module, cubin));
\* reading a released buffer is undefined: any result, or a crash.
L_ModuleLoad(p) ==
    /\ pc[p] = "l_moduleLoad"
    /\ \E a \in Answers(p, "cuModuleLoadData", args[p].cubin,
                        OkWith({1}) \cup FailOnly \cup
                        (IF Released(heap[p], args[p].cubin)
                         THEN {Crashed} ELSE {})) :
          /\ Record(p, Ev("cuModuleLoadData", args[p].cubin, a))
          /\ heap' = [heap EXCEPT
                        ![p] = Use(@, args[p].cubin,
                                   IF a.ok THEN "loaded" ELSE "not loaded")]
          /\ IF a = Crashed
             THEN Abort(p) /\ diag' = diag
             ELSE checkCudaErrors(p, "cuModuleLoadData", a.ok,
                                  NextL("l_moduleLoad"))
          /\ loc' = [loc EXCEPT ![p].module = IF a.ok THEN a.val ELSE @]
    /\ UNCHANGED <<paired, win32, calls, fn, args, out, entry, passed>>

\* free(cubin);  undefined unless cubin is a live malloc'ed block: the
\* build's allocator may take the block back, or end the process.
L_Free(p) ==
    /\ pc[p] = "l_free"
    /\ heap' = [heap EXCEPT ![p] = Release(@, args[p].cubin, "free")]
    /\ \E a \in Answers(p, "free", args[p].cubin,
                        OkWith({0}) \cup
                        (IF FreeIsDefined(heap[p], args[p].cubin)
                         THEN {} ELSE {Crashed})) :
          /\ Record(p, Ev("free", args[p].cubin, a))
          /\ IF a.ok THEN Goto(p, NextL("l_free")) ELSE Abort(p)
    /\ UNCHANGED <<paired, win32, calls, fn, args, loc, out, entry, diag,
                   passed>>

\* return module;
L_Return(p) ==
    /\ pc[p] = "l_return"
    /\ out' = [out EXCEPT ![p].module = loc[p].module]
    /\ Goto(p, NextL("l_return"))
    /\ UNCHANGED <<paired, win32, calls, fn, args, loc, entry, heap, trace,
                   diag, passed>>


\* ------------------------------------------------------------------ claims
Has(p, name) == \E i \in DOMAIN trace[p] : trace[p][i].name = name

OkIn(p, name) ==
    \E i \in DOMAIN trace[p] : trace[p][i].name = name /\ trace[p][i].ok

FailedIn(p, name) ==
    \E i \in DOMAIN trace[p] : trace[p][i].name = name /\ ~trace[p][i].ok

ValOf(p, name) ==
    trace[p][CHOOSE i \in DOMAIN trace[p] : trace[p][i].name = name].val

Printed(p, m) == \E i \in DOMAIN diag[p] : diag[p][i].msg = m

\* The calls whose failure the functions check for.
CheckedCalls ==
    {"ifstream::open", "findCudaDeviceDRV", "cuDeviceGetAttribute(MAJOR)",
     "cuDeviceGetAttribute(MINOR)", "sdkFindFilePath", "nvrtcCreateProgram",
     "nvrtcCompileProgram", "nvrtcGetProgramLogSize", "nvrtcGetProgramLog",
     "nvrtcGetCUBINSize", "nvrtcGetCUBIN", "cuDeviceGetName", "cuInit",
     "cuCtxCreate", "cuModuleLoadData"}

\* a checked call that reported an error (a crash reports nothing)
Failure(e) == e.name \in CheckedCalls /\ ~e.ok /\ e.val # Crashed.val

NullFilename(p) ==
    fn[p] = "compile" /\ args[p].filename = NULL /\ pc[p] # "c_filename"

\* C1 as stated: in compileFileToCUBIN and loadCUBIN every failure prints a
\* diagnostic and ends the process at once; after the first failing step
\* there is no further external call, no write to the output parameters
\* and no return to the caller.
C1_FailureEndsProcessAtOnce ==
    \A p \in Runs :
       /\ NullFilename(p) =>
             pc[p] = "exited" /\ trace[p] = <<>> /\ diag[p] # <<>>
       /\ \A i \in DOMAIN trace[p] :
             Failure(trace[p][i]) =>
                /\ i = Len(trace[p])
                /\ pc[p] = "exited"
                /\ diag[p] # <<>>
                /\ out[p] = entry[p]

\* C1 amended: every failure prints a diagnostic and ends the process with
\* no write to the output parameters and no return to the caller.  The end
\* is immediate (the failing call is the last external call) for every
\* failure but one: after a failing nvrtcCompileProgram the function still
\* calls nvrtcGetProgramLogSize and nvrtcGetProgramLog and dumps the log,
\* and only then checks the result and exits.
C1_FailureEndsProcess ==
    \A p \in Runs :
       /\ NullFilename(p) =>
             pc[p] = "exited" /\ trace[p] = <<>> /\ diag[p] # <<>>
       /\ \A i \in DOMAIN trace[p] :
             Failure(trace[p][i]) =>
                /\ out[p] = entry[p]
                /\ pc[p] = "exited" => diag[p] # <<>>
                /\ IF trace[p][i].name = "nvrtcCompileProgram"
                   THEN /\ pc[p] \in {"c_logSize", "c_getLog", "c_dumpLog",
                                      "c_checkRes", "exited"}
                        /\ \A j \in (i + 1) .. Len(trace[p]) :
                              trace[p][j].name \in {"nvrtcGetProgramLogSize",
                                                    "nvrtcGetProgramLog"}
                        /\ pc[p] = "exited" =>
                              diag[p][Len(diag[p])].msg \in
                                 {"nvrtcCompileProgram",
                                  "nvrtcGetProgramLogSize",
                                  "nvrtcGetProgramLog"}
                   ELSE /\ i = Len(trace[p])
                        /\ pc[p] = "exited"

\* a failed compile whose log was fetched and dumped before the exit
C1_Witness ==
    \E p \in Runs :
       /\ pc[p] = "exited"
       /\ FailedIn(p, "nvrtcCompileProgram")
       /\ OkIn(p, "nvrtcGetProgramLog")
       /\ diag[p][Len(diag[p])].msg = "nvrtcCompileProgram"

\* C2: compileFileToCUBIN writes *cubinResult and *cubinResultSize and
\* returns only when nvrtcCompileProgram, nvrtcGetCUBINSize and
\* nvrtcGetCUBIN all succeeded; when the compile failed both outputs are as
\* they were at entry; so every binary the caller holds, and every binary
\* given to loadCUBIN, was produced after a successful compile.
C2_BinaryOnlyFromSuccessfulCompile ==
    \A p \in Runs :
       /\ fn[p] = "compile" =>
             /\ (out[p] # entry[p] \/ pc[p] \in {"c_freeOptions", "idle"}) =>
                   /\ OkIn(p, "nvrtcCompileProgram")
                   /\ OkIn(p, "nvrtcGetCUBINSize")
                   /\ OkIn(p, "nvrtcGetCUBIN")
             /\ (Has(p, "nvrtcCompileProgram")
                   /\ ~OkIn(p, "nvrtcCompileProgram")) => out[p] = entry[p]
             /\ loc[p].code # NULL => OkIn(p, "nvrtcCompileProgram")
             /\ pc[p] = "idle" => out[p].cubinResult = loc[p].code
       /\ out[p].cubinResult # NULL =>
             heap[p][out[p].cubinResult].what = "code"
       /\ fn[p] = "load" =>
             /\ args[p].cubin = entry[p].cubinResult
             /\ heap[p][args[p].cubin].what = "code"

C2_Witness ==
    \E p \in Runs :
       /\ fn[p] = "compile"
       /\ pc[p] = "idle"
       /\ out[p] # entry[p]
       /\ out[p].cubinResult # NULL

Binaries(p) == {id \in DOMAIN heap[p] : heap[p][id].what = "code"}

Loads(b) == {i \in DOMAIN b.ops : b.ops[i] \in {"loaded", "not loaded"}}

\* C3 as stated: the binary buffer is released exactly once in loadCUBIN,
\* only after cuModuleLoadData succeeded on it, and after any sequence of
\* compileFileToCUBIN and loadCUBIN calls no binary buffer has been released
\* twice or passed to the module loader after its release.
C3_ReleasedOnceNeverLoadedAfter ==
    \A p \in Runs : \A id \in Binaries(p) :
       LET b == heap[p][id]
       IN  /\ Cardinality(Releases(b)) <= 1
           /\ \A i \in Releases(b) : i > 1 /\ b.ops[i - 1] = "loaded"
           /\ \A i \in Releases(b) : \A j \in Loads(b) : j < i
           /\ (fn[p] = "load" /\ args[p].cubin = id
                 /\ pc[p] \in {"l_return", "idle"}) => Releases(b) # {}

\* C3 amended: within each loadCUBIN call the binary buffer is released
\* exactly once, right after cuModuleLoadData succeeded on it in that call;
\* so a binary that is passed to loadCUBIN at most once is released at most
\* once and never loaded after its release.  loadCUBIN does not keep a
\* caller from passing the same pointer again.
C3_ReleasedOncePerLoad ==
    \A p \in Runs : \A id \in Binaries(p) :
       LET b == heap[p][id]
       IN  /\ \A i \in Releases(b) : i > 1 /\ b.ops[i - 1] = "loaded"
           /\ Cardinality(Loads(b)) <= 1 =>
                 /\ Cardinality(Releases(b)) <= 1
                 /\ \A i \in Releases(b) : \A j \in Loads(b) : j < i
           /\ (fn[p] = "load" /\ args[p].cubin = id
                 /\ pc[p] \in {"l_return", "idle"}) =>
                 /\ b.ops[Len(b.ops)] \in Deallocators
                 /\ Cardinality({i \in DOMAIN trace[p] :
                                   trace[p][i].name = "free"}) = 1

C3_Witness ==
    \E p \in Runs : \E id \in Binaries(p) :
       /\ fn[p] = "load"
       /\ pc[p] = "idle"
       /\ args[p].cubin = id
       /\ heap[p][id].ops = <<"loaded", "free">>

BothDone ==
    /\ paired
    /\ calls[1] >= 1
    /\ calls[1] = calls[2]
    /\ \A p \in Runs : pc[p] = "idle" \/ Ended(p)

SameDevice ==
    findCudaDeviceDRV(args[1].argv) = findCudaDeviceDRV(args[2].argv)

SameBehaviour ==
    /\ passed[1] = passed[2]
    /\ diag[1] = diag[2]
    /\ pc[1] = pc[2]
    /\ out[1] = out[2]

\* C4 as stated: the argument list is used only for device selection: two
\* calls of compileFileToCUBIN, or of loadCUBIN, whose argument lists
\* select the same device and whose other inputs are equal pass the same
\* compile options, print the same diagnostics and end the same way.
C4_ArgvOnlySelectsDevice == (BothDone /\ SameDevice) => SameBehaviour

\* C4 amended: the argument list is used for device selection and, in
\* compileFileToCUBIN with requiresCGheaders nonzero, its first element
\* argv[0] is used to locate cooperative_groups.h (and is printed when the
\* header path is empty): two calls whose argument lists select the same
\* device and, when requiresCGheaders is nonzero, have the same argv[0],
\* with all other inputs equal, pass the same compile options, print the
\* same diagnostics and end the same way.  loadCUBIN uses the list for
\* device selection only.
C4_ArgvSelectsDeviceAndLocatesHeader ==
    (/\ BothDone
     /\ SameDevice
     /\ \/ args[1].requiresCGheaders = 0
        \/ args[1].argv.exe = args[2].argv.exe) => SameBehaviour

\* two compiles that needed the header, with different argument lists that
\* select the same device and share argv[0], both returned
C4_Witness ==
    /\ BothDone
    /\ SameDevice
    /\ args[1].argv # args[2].argv
    /\ args[1].argv.exe = args[2].argv.exe
    /\ fn[1] = "compile"
    /\ args[1].requiresCGheaders = 1
    /\ pc[1] = "idle"
    /\ Len(passed[2]) = 2

\* C5: the first option given to nvrtcCompileProgram is exactly
\* "--gpu-architecture=sm_" followed by the decimal digits of the major and
\* then of the minor compute capability the driver reported for the
\* selected device; no character is cut off by the option buffer.
C5_ArchOptionIsExact ==
    \A p \in Runs :
       Has(p, "nvrtcCompileProgram") =>
          /\ Len(passed[p]) >= 1
          /\ passed[p][1] =
                GpuArchPrefix
                   \o DecDigits(ValOf(p, "cuDeviceGetAttribute(MAJOR)"))
                   \o DecDigits(ValOf(p, "cuDeviceGetAttribute(MINOR)"))
          /\ Len(passed[p][1]) =
                22 + (IF ValOf(p, "cuDeviceGetAttribute(MAJOR)") >= 10
                      THEN 2 ELSE 1)
                   + (IF ValOf(p, "cuDeviceGetAttribute(MINOR)") >= 10
                      THEN 2 ELSE 1)

\* a compile for a device with a two-digit major capability
C5_Witness ==
    \E p \in Runs :
       /\ Has(p, "nvrtcCompileProgram")
       /\ ValOf(p, "cuDeviceGetAttribute(MAJOR)") = 10
       /\ Len(passed[p][1]) = 25

Index(p, name) == CHOOSE i \in DOMAIN trace[p] : trace[p][i].name = name

\* C6: loadCUBIN selects a GPU, then initializes the driver, then creates a
\* context on the selected device, then hands the binary to the module
\* loader: cuModuleLoadData is called only after cuInit and cuCtxCreate
\* have both succeeded, and a module handle is returned only after
\* cuModuleLoadData has succeeded.
C6_LoadOrder ==
    \A p \in Runs :
       fn[p] = "load" =>
          /\ Has(p, "cuInit") => OkIn(p, "findCudaDeviceDRV")
          /\ Has(p, "cuCtxCreate") =>
                /\ OkIn(p, "cuInit")
                /\ Index(p, "cuInit") < Index(p, "cuCtxCreate")
                /\ trace[p][Index(p, "cuCtxCreate")].arg
                      = ValOf(p, "findCudaDeviceDRV")
          /\ Has(p, "cuModuleLoadData") =>
                /\ OkIn(p, "cuInit")
                /\ OkIn(p, "cuCtxCreate")
                /\ Index(p, "cuCtxCreate") < Index(p, "cuModuleLoadData")
          /\ (pc[p] \in {"l_return", "idle"} \/ out[p].module # entry[p].module)
                => OkIn(p, "cuModuleLoadData")

C6_Witness ==
    \E p \in Runs :
       /\ fn[p] = "load"
       /\ pc[p] = "idle"
       /\ out[p].module # NULL
       /\ OkIn(p, "cuModuleLoadData")

\* the directory part of a found header path: the path with everything from
\* the header file name onward removed
DirPart(path) == SubSeq(path, 1, Len(path) - Len(HeaderNames))

\* C7: with requiresCGheaders nonzero and the header found, the second
\* option given to nvrtcCompileProgram is exactly "--include-path=" followed
\* by the complete directory part of the found path, no character dropped;
\* with requiresCGheaders zero exactly one option is given.
C7_IncludePathIsExact ==
    \A p \in Runs :
       Has(p, "nvrtcCompileProgram") =>
          IF args[p].requiresCGheaders = 0
          THEN Len(passed[p]) = 1
          ELSE /\ Len(passed[p]) = 2
               /\ passed[p][2] =
                     IncludePathPrefix
                        \o DirPart(HeaderPaths[ValOf(p, "sdkFindFilePath")])

LogHandled(p) == loc[p].log # NULL /\ Released(heap[p], loc[p].log)

ResultChecked(p) ==
    \/ pc[p] \in {"c_cubinSize", "c_getCubin", "c_writeOut", "c_freeOptions",
                  "idle"}
    \/ pc[p] = "exited" /\ Printed(p, "nvrtcCompileProgram")

\* C8: the log is fetched and dumped before the result of
\* nvrtcCompileProgram is checked: when the compile failed and the fetched
\* log has at least 2 characters the log is printed before the process
\* ends; the fetched log is printed if and only if its length is at least
\* 2; the binary is fetched only after the log was handled and the compile
\* result was checked and found successful.
C8_LogBeforeResultCheck ==
    \A p \in Runs :
       fn[p] = "compile" =>
          /\ ResultChecked(p) => OkIn(p, "nvrtcGetProgramLog") /\ LogHandled(p)
          /\ (pc[p] = "exited" /\ FailedIn(p, "nvrtcCompileProgram")
                /\ OkIn(p, "nvrtcGetProgramLog")
                /\ ValOf(p, "nvrtcGetProgramLogSize") - 1 >= 2) =>
                /\ Len(diag[p]) = 2
                /\ diag[p][1].msg = "compilation log"
                /\ diag[p][2].msg = "nvrtcCompileProgram"
          /\ LogHandled(p) =>
                (Printed(p, "compilation log")
                    <=> ValOf(p, "nvrtcGetProgramLogSize") - 1 >= 2)
          /\ Printed(p, "compilation log") => LogHandled(p)
          /\ Has(p, "nvrtcGetCUBINSize") =>
                /\ LogHandled(p)
                /\ OkIn(p, "nvrtcCompileProgram")
                /\ Index(p, "nvrtcGetProgramLog") < Index(p, "nvrtcGetCUBINSize")

\* a failed compile whose two-character log was printed before the exit
C8_Witness ==
    \E p \in Runs :
       /\ pc[p] = "exited"
       /\ FailedIn(p, "nvrtcCompileProgram")
       /\ ValOf(p, "nvrtcGetProgramLogSize") = 3
       /\ Printed(p, "compilation log")
       /\ Printed(p, "nvrtcCompileProgram")

\* C9: on every normal return of compileFileToCUBIN every resource the
\* function acquired other than the returned binary (the source text
\* buffer, each option string, the log buffer, the NVRTC program) has been
\* released exactly once: only binaries are live after successful compiles.
C9_OnlyBinariesStayLive ==
    \A p \in Runs :
       (fn[p] = "compile" /\ pc[p] = "idle") =>
          \A id \in DOMAIN heap[p] :
             heap[p][id].what # "code" =>
                Cardinality(Releases(heap[p][id])) = 1

\* C10: every buffer is released by the deallocator that matches its
\* allocator: the binary (new[]) released in loadCUBIN, the option strings
\* and the log buffer (malloc) released in compileFileToCUBIN.
C10_MatchingDeallocators ==
    \A p \in Runs : \A id \in DOMAIN heap[p] :
       \A i \in Releases(heap[p][id]) :
          heap[p][id].ops[i] = Matching(heap[p][id].by)

\* ----------------------------------------------------------- specification
Next ==
    \E p \in Runs :
       \/ CallCompile(p)
       \/ C_Filename(p)
       \/ C_Open(p)
       \/ C_FindDevice(p)
       \/ C_Major(p)
       \/ C_Minor(p)
       \/ C_ArchOption(p)
       \/ C_CGHeaders(p)
       \/ C_CreateProgram(p)
       \/ C_Compile(p)
       \/ C_LogSize(p)
       \/ C_GetLog(p)
       \/ C_DumpLog(p)
       \/ C_CheckRes(p)
       \/ C_CubinSize(p)
       \/ C_GetCubin(p)
       \/ C_WriteOut(p)
       \/ C_FreeOptions(p)
       \/ CallLoad(p)
       \/ L_FindDevice(p)
       \/ L_Major(p)
       \/ L_Minor(p)
       \/ L_Name(p)
       \/ L_Init(p)
       \/ L_CtxCreate(p)
       \/ L_ModuleLoad(p)
       \/ L_Free(p)
       \/ L_Return(p)

Spec == Init /\ [][Next]_vars

SpecPair == InitPair /\ [][Next]_vars

====
